---- MODULE Spec2Model ----
(***************************************************************************)
(* Model of glazier/lib/error.py: the error registry (get_message), the    *)
(* log collection wrapper (_collect) and the terminal error reporter       *)
(* (GlazierError.__init__).                                                *)
(*                                                                         *)
(* A construction of GlazierError is a frame on a call stack; a nested     *)
(* construction (raise GlazierError(4301) in get_message, raise            *)
(* GlazierError(4302, ...) in _collect) pushes a frame on top of the       *)
(* suspended one.  The collaborators are recorded as call lists: lookups   *)
(* (calls of get_message), collects (calls of logs.Collect with their      *)
(* outcome) and log (calls of logging.critical).                           *)
(***************************************************************************)
EXTENDS Integers, Sequences, FiniteSets, TLC

VARIABLES stack, status, exitStatus, log, collects, lookups

vars == <<stack, status, exitStatus, log, collects, lookups>>

(***************************************************************************)
(* Bounds of the model.                                                    *)
(***************************************************************************)
\* deepest call stack the model explores (the guards of the nested
\* constructions stop there)
MaxDepth == 5
\* most keyword arguments passed to one construction
MaxKwargs == 2

(***************************************************************************)
(* Strings.                                                                *)
(***************************************************************************)
Char(s, i) == SubSeq(s, i, i)

StartsWith(s, p) == Len(p) <= Len(s) /\ SubSeq(s, 1, Len(p)) = p

EndsWith(s, p) == Len(p) <= Len(s) /\ SubSeq(s, Len(s) - Len(p) + 1, Len(s)) = p

Contains(s, p) == \E i \in 1..(Len(s) + 1) :
                     i + Len(p) - 1 <= Len(s) /\ SubSeq(s, i, i + Len(p) - 1) = p

\* str(n) of a Python int: decimal digits, "-" in front of a negative one
Digit(d) == Char("0123456789", d + 1)

RECURSIVE NatToStr(_)
NatToStr(n) == IF n < 10 THEN Digit(n) ELSE NatToStr(n \div 10) \o Digit(n % 10)

IntToStr(n) == IF n < 0 THEN "-" \o NatToStr(0 - n) ELSE NatToStr(n)

(***************************************************************************)
(* Optional values and truthiness.                                         *)
(***************************************************************************)
\* Optional[str]: None or a string
None == [isNone |-> TRUE, val |-> ""]
Some(s) == [isNone |-> FALSE, val |-> s]

\* `not msg` is false exactly for a non-empty string
Truthy(m) == ~m.isNone /\ m.val # ""

\* Optional[Any] exception detail: None, a string, or an exception object.
\* An exception object is truthy whatever its text; a string only if non-empty.
NoException == [kind |-> "None", text |-> ""]
StrDetail(s) == [kind |-> "str", text |-> s]
LogError(s) == [kind |-> "LogError", text |-> s]

ExceptionTruthy(e) == e.kind = "LogError" \/ (e.kind = "str" /\ e.text # "")

\* f'{exception}': str() of the value
ExceptionStr(e) == IF e.kind = "None" THEN "None" ELSE e.text

(***************************************************************************)
(* Constants of the module.                                                *)
(***************************************************************************)
HELP_URI == "https://glazier-failures.example.com"

_SUFFIX == "Need help? Visit " \o HELP_URI

DEFAULT_CODE == 4000
UNKNOWN_CODE == 4301
COLLECT_FAILED_CODE == 4302

\* the errors dict of get_message
errors == [c \in {4000, 4301, 4302, 5000, 5300} |->
             CASE c = 4000 -> "Uncaught exception"
               [] c = 4301 -> "Failed to determine error message from code"
               [] c = 4302 -> "Failed to collect logs"
               [] c = 5000 -> "Failed to reach web server"
               [] c = 5300 -> "Service unavailable"]

\* errors.get(code): None when the key is missing
ErrorsGet(code) == IF code \in DOMAIN errors THEN Some(errors[code]) ELSE None

(***************************************************************************)
(* str.format with positional arguments, restricted to the automatic       *)
(* fields "{}" and the escapes "{{" and "}}"; any other use of a brace is  *)
(* reported as ValueError.  The result is [err, text]; err = "none" when   *)
(* format returns.                                                         *)
(***************************************************************************)
FormatCons(s, r) == IF r.err = "none" THEN [err |-> "none", text |-> s \o r.text] ELSE r

\* positions of the braces of t from position i on
BracesFrom(t, i) == {k \in i..Len(t) : Char(t, k) \in {"{", "}"}}

Min(S) == CHOOSE k \in S : \A j \in S : k <= j

\* formats t from position i on; n automatic fields have been filled
RECURSIVE FormatFrom(_, _, _, _)
FormatFrom(t, i, args, n) ==
  IF BracesFrom(t, i) = {}
  THEN [err |-> "none", text |-> SubSeq(t, i, Len(t))]
  ELSE LET k == Min(BracesFrom(t, i))
           c == Char(t, k)
           d == IF k < Len(t) THEN Char(t, k + 1) ELSE ""
           literal == SubSeq(t, i, k - 1)
       IN  CASE c = d ->
                  FormatCons(literal \o c, FormatFrom(t, k + 2, args, n))
             [] c = "{" /\ d = "}" ->
                  IF n + 1 > Len(args)
                  THEN [err |-> "IndexError", text |-> ""]
                  ELSE FormatCons(literal \o args[n + 1],
                                  FormatFrom(t, k + 2, args, n + 1))
             [] OTHER -> [err |-> "ValueError", text |-> ""]

\* (variant: the values are appended to the template)
FormatAppending(t, args) ==
  [err |-> "none",
   text |-> t \o (IF args = <<>> THEN "" ELSE " " \o args[1])]

\* (variant: error_msg % values, which rejects values the template
\* has no conversion for)
FormatPercent(t, args) ==
  IF args = <<>> THEN [err |-> "none", text |-> t]
                 ELSE [err |-> "TypeError", text |-> ""]

Format(t, args) == FormatFrom(t, 1, args, 0)

(***************************************************************************)
(* Frames: one per construction of GlazierError.                           *)
(***************************************************************************)
\* the arguments of __init__ and the position of the construction;
\* given keeps the msg argument as passed, msg is the local variable
Frame(code, msg, exception, collect, kwargs) ==
  [code |-> code, given |-> msg, msg |-> msg, exception |-> exception,
   collect |-> collect, kwargs |-> kwargs, pc |-> "Created"]

Top == stack[Len(stack)]

Running == status = "running" /\ Len(stack) > 0

SetTop(f) == [stack EXCEPT ![Len(stack)] = f]

\* (variant: `if msg is None`)
NeedsLookupIsNone(f) == f.msg.isNone

\* (variant: the msg argument is ignored)
NeedsLookupAlways(f) == TRUE

\* line 98: `if not msg`
NeedsLookup(f) == ~Truthy(f.msg)

\* (variant: raise GlazierError(), the default code)
UnknownCodeErrorDefault == Frame(DEFAULT_CODE, None, NoException, TRUE, <<>>)

\* line 61: raise GlazierError(4301)
UnknownCodeError == Frame(UNKNOWN_CODE, None, NoException, TRUE, <<>>)

\* (variant: collect left at its default)
CollectErrorCollecting(e) == Frame(COLLECT_FAILED_CODE, None, e, TRUE, <<>>)

\* (variant: the caught failure is not passed on)
CollectErrorNoDetail(e) == Frame(COLLECT_FAILED_CODE, None, NoException, FALSE, <<>>)

\* line 74: raise GlazierError(4302, exception=e, collect=False)
CollectError(e) == Frame(COLLECT_FAILED_CODE, None, e, FALSE, <<>>)

\* (variant: one newline after the message)
ComposeMsgOneNewline(f) ==
  f.msg.val \o "\n"
    \o (IF ExceptionTruthy(f.exception)
        THEN "Exception: " \o ExceptionStr(f.exception) \o "\n\n"
        ELSE "")
    \o _SUFFIX \o "#" \o IntToStr(f.code)

\* (variant: the footer carries the default code)
ComposeMsgDefaultCode(f) ==
  f.msg.val \o "\n\n"
    \o (IF ExceptionTruthy(f.exception)
        THEN "Exception: " \o ExceptionStr(f.exception) \o "\n\n"
        ELSE "")
    \o _SUFFIX \o "#" \o IntToStr(DEFAULT_CODE)

\* lines 100-106: the string handed to logging.critical
ComposeMsg(f) ==
  f.msg.val \o "\n\n"
    \o (IF ExceptionTruthy(f.exception)
        THEN "Exception: " \o ExceptionStr(f.exception) \o "\n\n"
        ELSE "")
    \o _SUFFIX \o "#" \o IntToStr(f.code)

\* (variant: the flag is not consulted)
ShouldCollectAlways(f) == TRUE

\* line 108: `if collect`
ShouldCollect(f) == f.collect

\* (variant: logging does not wait for the collection)
LogReadyEarly(f) == f.pc \in {"Composed", "CollectionAttempted"}

\* line 111 is reached from line 106 when collect is false, and from the
\* return of _collect otherwise
LogReady(f) == \/ f.pc = "Composed" /\ ~ShouldCollect(f)
               \/ f.pc = "CollectionAttempted"

\* (variant: sys.exit(code))
ExitStatusOfCode(f) == f.code % 256

\* line 112: sys.exit(1)
ExitStatus(f) == 1

(***************************************************************************)
(* Inputs.                                                                 *)
(***************************************************************************)
Codes == {4000, 4301, 4302, 5000, 5300, 0, -7, 1234}

Msgs == {None, Some(""), Some("custom text")}

Exceptions == {NoException, StrDetail(""), StrDetail("boom")}

LogErrors == {LogError(""), LogError("zip failed")}

KwargValues == {"a", "b"}

Kwargs == UNION {[1..n -> KwargValues] : n \in 0..MaxKwargs}

(***************************************************************************)
(* Initial state: no construction has been made.                           *)
(***************************************************************************)
Init == /\ stack = <<>>
        /\ status = "idle"
        /\ exitStatus = -1
        /\ log = <<>>
        /\ collects = <<>>
        /\ lookups = <<>>

(***************************************************************************)
(* Actions.                                                                *)
(***************************************************************************)
\* a caller evaluates GlazierError(code, msg, exception, collect, **kwargs)
Construct(code, msg, exception, collect, kwargs) ==
  /\ status = "idle"
  /\ stack' = <<Frame(code, msg, exception, collect, kwargs)>>
  /\ status' = "running"
  /\ UNCHANGED <<exitStatus, log, collects, lookups>>

\* line 98, msg supplied: the registry is not consulted
MsgSupplied ==
  /\ Running
  /\ Top.pc = "Created"
  /\ ~NeedsLookup(Top)
  /\ stack' = SetTop([Top EXCEPT !.pc = "MessageResolved"])
  /\ UNCHANGED <<status, exitStatus, log, collects, lookups>>

\* lines 99, 58-65: get_message finds the code and formats its template
GetMessageFound ==
  /\ Running
  /\ Top.pc = "Created"
  /\ NeedsLookup(Top)
  /\ Truthy(ErrorsGet(Top.code))
  /\ lookups' = Append(lookups, Top.code)
  /\ LET r == Format(ErrorsGet(Top.code).val, Top.kwargs)
     IN  IF r.err = "none"
         THEN /\ stack' = SetTop([Top EXCEPT !.msg = Some(r.text),
                                             !.pc = "MessageResolved"])
              /\ status' = "running"
         ELSE /\ stack' = stack
              /\ status' = r.err
  /\ UNCHANGED <<exitStatus, log, collects>>

\* lines 99, 58-61: get_message does not find the code
GetMessageMissing ==
  /\ Running
  /\ Top.pc = "Created"
  /\ NeedsLookup(Top)
  /\ ~Truthy(ErrorsGet(Top.code))
  /\ Len(stack) < MaxDepth
  /\ lookups' = Append(lookups, Top.code)
  /\ stack' = Append(stack, UnknownCodeError)
  /\ UNCHANGED <<status, exitStatus, log, collects>>

\* lines 100-106
Compose ==
  /\ Running
  /\ Top.pc = "MessageResolved"
  /\ stack' = SetTop([Top EXCEPT !.msg = Some(ComposeMsg(Top)), !.pc = "Composed"])
  /\ UNCHANGED <<status, exitStatus, log, collects, lookups>>

\* lines 108-109, 70-72: logs.Collect returns
CollectReturns ==
  /\ Running
  /\ Top.pc = "Composed"
  /\ ShouldCollect(Top)
  /\ collects' = Append(collects, [by |-> Len(stack), outcome |-> "returned", error |-> NoException])
  /\ stack' = SetTop([Top EXCEPT !.pc = "CollectionAttempted"])
  /\ UNCHANGED <<status, exitStatus, log, lookups>>

\* (variant: the handler swallows LogError and _collect returns)
CollectFailsSwallowed(e) ==
  /\ Running
  /\ Top.pc = "Composed"
  /\ ShouldCollect(Top)
  /\ collects' = Append(collects, [by |-> Len(stack), outcome |-> "LogError", error |-> e])
  /\ stack' = SetTop([Top EXCEPT !.pc = "CollectionAttempted"])
  /\ UNCHANGED <<status, exitStatus, log, lookups>>

\* lines 108-109, 70-74: logs.Collect raises LogError
CollectFails(e) ==
  /\ Running
  /\ Top.pc = "Composed"
  /\ ShouldCollect(Top)
  /\ Len(stack) < MaxDepth
  /\ collects' = Append(collects, [by |-> Len(stack), outcome |-> "LogError", error |-> e])
  /\ stack' = Append(SetTop([Top EXCEPT !.pc = "CollectionAttempted"]),
                     CollectError(e))
  /\ UNCHANGED <<status, exitStatus, log, lookups>>

\* line 111: logging.critical(msg)
LogCritical ==
  /\ Running
  /\ LogReady(Top)
  /\ log' = Append(log, [by |-> Len(stack), text |-> Top.msg.val])
  /\ stack' = SetTop([Top EXCEPT !.pc = "Logged"])
  /\ UNCHANGED <<status, exitStatus, collects, lookups>>

\* line 112: sys.exit(1); SystemExit passes every enclosing frame
SysExit ==
  /\ Running
  /\ Top.pc = "Logged"
  /\ stack' = SetTop([Top EXCEPT !.pc = "Terminated"])
  /\ status' = "exited"
  /\ exitStatus' = ExitStatus(Top)
  /\ UNCHANGED <<log, collects, lookups>>

Step == \/ MsgSupplied
        \/ GetMessageFound
        \/ GetMessageMissing
        \/ Compose
        \/ CollectReturns
        \/ \E e \in LogErrors : CollectFails(e)
        \/ LogCritical
        \/ SysExit

Next == \/ \E code \in Codes, msg \in Msgs, exception \in Exceptions,
              collect \in BOOLEAN, kwargs \in Kwargs :
              Construct(code, msg, exception, collect, kwargs)
        \/ Step

Spec == Init /\ [][Next]_vars

\* the interpreter keeps running the construction it has started
FairSpec == Spec /\ WF_vars(Step)

(***************************************************************************)
(* Vocabulary of the properties.                                           *)
(***************************************************************************)
\* the construction made by the caller
TopLevel == stack[1]

Started == Len(stack) > 0

Exited == status = "exited"

\* the footer line of a code
Footer(code) == _SUFFIX \o "#" \o IntToStr(code)

InRegistry(code) == code \in DOMAIN errors

\* the caller's construction resolves its message through the registry
\* and the registry does not hold its code
UnknownCodeCase == Started /\ ~Truthy(TopLevel.given) /\ ~InRegistry(TopLevel.code)

CollectFailed == \E i \in 1..Len(collects) : collects[i].outcome = "LogError"

CollectSucceeded == /\ collects # <<>>
                    /\ \A i \in 1..Len(collects) : collects[i].outcome = "returned"

\* what follows the message in the string a construction logs
Trailer(f) == "\n\n"
                \o (IF ExceptionTruthy(f.exception)
                    THEN "Exception: " \o ExceptionStr(f.exception) \o "\n\n"
                    ELSE "")
                \o Footer(f.code)

(***************************************************************************)
(* C1: every construction ends in process exit with status exactly 1: no   *)
(* execution ends with another exit status, ends by an error other than    *)
(* the exit, or stops before the exit.                                     *)
(***************************************************************************)
C1_ExitStatusAlwaysOne ==
  /\ status \in {"idle", "running", "exited"}
  /\ (Exited <=> exitStatus # -1)
  /\ (Exited => exitStatus = 1)
  /\ (status = "running" => ENABLED Step)

\* an exit reached through an unknown code and a failed collection
C1_Witness ==
  /\ Exited
  /\ exitStatus = 1
  /\ UnknownCodeCase
  /\ CollectFailed

(***************************************************************************)
(* C2: with a collaborator that returns or fails with LogError, every      *)
(* construction that starts reaches the process exit, and no execution     *)
(* nests more than three constructions.                                    *)
(***************************************************************************)
C2_TerminatesWithinThreeFrames ==
  /\ [](Len(stack) <= 3)
  /\ (Started ~> Exited)

\* the deepest nesting: caller's construction, 4301, 4302
C2_Witness ==
  /\ Exited
  /\ Len(stack) = 3
  /\ stack[2].code = UNKNOWN_CODE
  /\ stack[3].code = COLLECT_FAILED_CODE
  /\ ~stack[3].collect

(***************************************************************************)
(* C3: a construction with collect=false never invokes the log collection  *)
(* collaborator, whatever the code and the msg.                            *)
(***************************************************************************)
C3_NoCollectWhenDisabled ==
  (Started /\ ~TopLevel.collect) => collects = <<>>

(***************************************************************************)
(* C4 as stated: for a code absent from the registry and no msg, the       *)
(* process exits with status 1 and the logged critical message carries     *)
(* the footer of 4301.                                                     *)
(***************************************************************************)
C4_UnknownCodeLogs4301 ==
  (Exited /\ UnknownCodeCase) =>
    /\ exitStatus = 1
    /\ log # <<>>
    /\ \A i \in 1..Len(log) : EndsWith(log[i].text, Footer(UNKNOWN_CODE))

(***************************************************************************)
(* C4 amended: for a code absent from the registry and no msg, the process *)
(* exits with status 1 and the one logged critical message carries the     *)
(* footer of 4301, unless the log collection fails with LogError: then it  *)
(* carries the footer of 4302.  It never carries the requested code.       *)
(***************************************************************************)
C4_UnknownCodeLogs4301Or4302 ==
  (Exited /\ UnknownCodeCase) =>
    /\ exitStatus = 1
    /\ Len(log) = 1
    /\ EndsWith(log[1].text,
                Footer(IF CollectFailed THEN COLLECT_FAILED_CODE ELSE UNKNOWN_CODE))
    /\ ~Contains(log[1].text, Footer(TopLevel.code))

\* an unknown code whose nested 4301 construction has logged and exited
C4_Witness ==
  /\ Exited
  /\ UnknownCodeCase
  /\ TopLevel.code = 1234
  /\ ~CollectFailed
  /\ log[1].by = 2
  /\ EndsWith(log[1].text, "#4301")

(***************************************************************************)
(* C5 as stated: a construction with collect=true whose collection         *)
(* succeeds logs exactly one critical message, and it contains the footer  *)
(* of the code passed to the construction.                                 *)
(***************************************************************************)
C5_CollectOkLogsOriginalFooter ==
  (Exited /\ TopLevel.collect /\ CollectSucceeded) =>
    /\ Len(log) = 1
    /\ Contains(log[1].text, Footer(TopLevel.code))

(***************************************************************************)
(* C5 amended: a construction with collect=true whose collection succeeds  *)
(* logs exactly one critical message; it contains the footer of the code   *)
(* passed to the construction when a non-empty msg was passed or the code  *)
(* is in the registry, and the footer of 4301 otherwise.                   *)
(***************************************************************************)
C5_CollectOkLogsOneFooter ==
  (Exited /\ TopLevel.collect /\ CollectSucceeded) =>
    /\ Len(log) = 1
    /\ Len(collects) = 1
    /\ Contains(log[1].text,
                Footer(IF UnknownCodeCase THEN UNKNOWN_CODE ELSE TopLevel.code))
    /\ (UnknownCodeCase => ~Contains(log[1].text, Footer(TopLevel.code)))

\* a registry code, collected and logged by the caller's own construction
C5_Witness ==
  /\ Exited
  /\ Len(stack) = 1
  /\ TopLevel.collect
  /\ TopLevel.code = 5300
  /\ CollectSucceeded
  /\ Contains(log[1].text, "#5300")

(***************************************************************************)
(* C6: when the collection fails with LogError, exactly one critical       *)
(* message is logged, it is the message of 4302 with the caught failure    *)
(* as exception detail, the nested construction runs with collect=false,   *)
(* and the collaborator is invoked exactly once in the execution.          *)
(***************************************************************************)
C6_CollectFailureLogs4302Once ==
  CollectFailed =>
    /\ Len(collects) = 1
    /\ Len(log) <= 1
    /\ LET nested == stack[collects[1].by + 1]
       IN  /\ Len(stack) = collects[1].by + 1
           /\ nested.code = COLLECT_FAILED_CODE
           /\ ~nested.collect
           /\ nested.exception = collects[1].error
           /\ Exited =>
                /\ Len(log) = 1
                /\ log[1].by = Len(stack)
                /\ log[1].text =
                     "Failed to collect logs\n\nException: "
                       \o collects[1].error.text \o "\n\n" \o Footer(4302)

\* a failed collection reported by the nested construction
C6_Witness ==
  /\ Exited
  /\ CollectFailed
  /\ collects[1].error = LogError("zip failed")
  /\ Contains(log[1].text, "Exception: zip failed")
  /\ Len(stack) = 2

C8_LoggedMessageNonEmpty ==
  \A i \in 1..Len(log) :
    LET f == stack[log[i].by]
    IN  /\ EndsWith(log[i].text, Trailer(f))
        /\ Len(log[i].text) > Len(Trailer(f))
        /\ ~StartsWith(log[i].text, "\n\n")

\* an empty msg replaced by the registry message of 4301 in the log
C8_Witness ==
  /\ log # <<>>
  /\ TopLevel.given = Some("")
  /\ ~InRegistry(TopLevel.code)
  /\ StartsWith(log[1].text, "Failed to determine error message from code\n\n")

(***************************************************************************)
(* C9: each construction moves only forward through Created,               *)
(* MessageResolved, Composed, CollectionAttempted (when collect is set),   *)
(* Logged, Terminated: the collection is not invoked before the message    *)
(* is composed, the critical log is not emitted before the collection      *)
(* (when enabled) has returned, and the exit does not happen before the    *)
(* critical log.                                                           *)
(***************************************************************************)
Rank(pc) == CASE pc = "Created" -> 0
              [] pc = "MessageResolved" -> 1
              [] pc = "Composed" -> 2
              [] pc = "CollectionAttempted" -> 3
              [] pc = "Logged" -> 4
              [] pc = "Terminated" -> 5

CollectedBy(i) == \E k \in 1..Len(collects) : collects[k].by = i

CollectReturnedTo(i) ==
  \E k \in 1..Len(collects) : collects[k].by = i /\ collects[k].outcome = "returned"

LoggedBy(i) == \E k \in 1..Len(log) : log[k].by = i

\* the steps one construction may take
ForwardStep(f, g) ==
  \/ g.pc = f.pc
  \/ f.pc = "Created" /\ g.pc = "MessageResolved"
  \/ f.pc = "MessageResolved" /\ g.pc = "Composed"
  \/ f.pc = "Composed" /\ g.pc = "CollectionAttempted" /\ f.collect
  \/ f.pc = "Composed" /\ g.pc = "Logged" /\ ~f.collect
  \/ f.pc = "CollectionAttempted" /\ g.pc = "Logged"
  \/ f.pc = "Logged" /\ g.pc = "Terminated"

C9_Order ==
  /\ \A i \in 1..Len(stack) :
       /\ CollectedBy(i) <=> (stack[i].collect /\ Rank(stack[i].pc) >= 3)
       /\ CollectedBy(i) => EndsWith(stack[i].msg.val, Trailer(stack[i]))
       /\ LoggedBy(i) <=> Rank(stack[i].pc) >= 4
       /\ LoggedBy(i) => (stack[i].collect => CollectReturnedTo(i))
       /\ stack[i].pc = "Terminated" => (Exited /\ LoggedBy(i))
  /\ Exited => (stack[Len(stack)].pc = "Terminated" /\ LoggedBy(Len(stack)))

C9_ForwardOnly ==
  /\ []C9_Order
  /\ [][\A i \in 1..Len(stack) :
          /\ i <= Len(stack')
          /\ ForwardStep(stack[i], stack'[i])
          /\ (CollectedBy(i)' /\ ~CollectedBy(i)) => stack[i].pc = "Composed"
          /\ (LoggedBy(i)' /\ ~LoggedBy(i)) =>
               (stack[i].pc \in {"Composed", "CollectionAttempted"}
                  /\ (stack[i].collect => CollectReturnedTo(i)))
          /\ (Exited' /\ ~Exited) => LoggedBy(Len(stack))]_vars

\* a construction that went through every state, the collection included
C9_Witness ==
  /\ Exited
  /\ Len(stack) = 1
  /\ TopLevel.pc = "Terminated"
  /\ TopLevel.collect
  /\ CollectReturnedTo(1)
  /\ LoggedBy(1)
  /\ ~Truthy(TopLevel.given)

(***************************************************************************)
(* C10: the string a construction passes to the critical log is the        *)
(* resolved message, two newlines, then (only with an exception detail)    *)
(* the line "Exception: <detail>" and two newlines, then the footer        *)
(* "<help-suffix>#<code>" of that construction; so it ends with "#<code>", *)
(* "#5000" for code 5000.                                                  *)
(***************************************************************************)
\* the message of a construction: the msg passed, or the registry's
ResolvedMessage(f) == IF Truthy(f.given) THEN f.given.val ELSE errors[f.code]

C10_LoggedStringLayout ==
  \A i \in 1..Len(log) :
    LET f == stack[log[i].by]
        text == log[i].text
    IN  /\ text = ResolvedMessage(f) \o "\n\n"
                    \o (IF ExceptionTruthy(f.exception)
                        THEN "Exception: " \o f.exception.text \o "\n\n"
                        ELSE "")
                    \o "Need help? Visit " \o HELP_URI \o "#" \o IntToStr(f.code)
        /\ EndsWith(text, "#" \o IntToStr(f.code))
        /\ f.code = 5000 => EndsWith(text, "#5000")
        /\ (f.code = 5000 /\ ~Truthy(f.given) /\ f.exception = NoException) =>
             text = "Failed to reach web server\n\nNeed help? Visit "
                      \o HELP_URI \o "#5000"
        /\ Contains(text, "Exception: ") <=> ExceptionTruthy(f.exception)

\* code 5000 logged with an exception detail
C10_Witness ==
  /\ log # <<>>
  /\ TopLevel.code = 5000
  /\ TopLevel.exception = StrDetail("boom")
  /\ ~Truthy(TopLevel.given)
  /\ log[1].by = 1
  /\ EndsWith(log[1].text, "\n\nException: boom\n\nNeed help? Visit "
                             \o HELP_URI \o "#5000")

(***************************************************************************)
(* C11: for every code of the registry and every substitution sequence     *)
(* with at least as many values as the template has placeholders,          *)
(* get_message returns the template with the placeholders replaced, does   *)
(* not raise and does not re-enter the reporter; a template without        *)
(* placeholders is returned verbatim whatever the substitutions.           *)
(***************************************************************************)
\* number of automatic fields "{}" of a template
Placeholders(t) == Cardinality({k \in 1..(Len(t) - 1) : SubSeq(t, k, k + 1) = "{}"})

HasBrace(t) == \E k \in 1..Len(t) : Char(t, k) \in {"{", "}"}

\* a step in which get_message is called with a code of the registry
GetMessageOfRegistryCode ==
  /\ Len(lookups') = Len(lookups) + 1
  /\ InRegistry(lookups'[Len(lookups')])

C11_GetMessageReturnsTemplate ==
  [][GetMessageOfRegistryCode =>
       LET t == errors[Top.code]
           after == stack'[Len(stack)]
       IN  /\ lookups'[Len(lookups')] = Top.code
           /\ Len(Top.kwargs) >= Placeholders(t) =>
                /\ status' = "running"
                /\ Len(stack') = Len(stack)
                /\ after.pc = "MessageResolved"
                /\ ~after.msg.isNone
                /\ Len(after.msg.val) >= Len(t) - 2 * Placeholders(t)
                /\ ~HasBrace(t) => after.msg.val = t]_vars

\* get_message has returned the template of 5300 although two values
\* were passed
C11_Witness ==
  /\ Started
  /\ Len(stack) = 1
  /\ TopLevel.code = 5300
  /\ TopLevel.kwargs = <<"a", "b">>
  /\ TopLevel.given = None
  /\ TopLevel.pc = "MessageResolved"
  /\ TopLevel.msg = Some("Service unavailable")
  /\ lookups = <<5300>>

(***************************************************************************)
(* C12: every failure inside the component (unknown code, template         *)
(* mismatch, collection failure) re-enters the construction protocol with  *)
(* the code of that failure; none escapes the constructor as another       *)
(* error that bypasses the critical log and the exit with status 1.        *)
(***************************************************************************)
\* construction i is suspended in get_message, which missed its code
SuspendedByUnknownCode(i) ==
  /\ stack[i].pc = "Created"
  /\ ~Truthy(stack[i].given)
  /\ ~InRegistry(stack[i].code)
  /\ stack[i + 1].code = UNKNOWN_CODE

\* construction i is suspended in _collect, whose collection failed
SuspendedByCollectFailure(i) ==
  /\ stack[i].pc = "CollectionAttempted"
  /\ \E k \in 1..Len(collects) :
       /\ collects[k] = [by |-> i, outcome |-> "LogError",
                         error |-> stack[i + 1].exception]
  /\ stack[i + 1].code = COLLECT_FAILED_CODE

MissedLookups == {k \in 1..Len(lookups) : ~InRegistry(lookups[k])}

FailedCollects == {k \in 1..Len(collects) : collects[k].outcome = "LogError"}

\* no template of the registry can run short of values
NoTemplateMismatch ==
  \A c \in DOMAIN errors : \A args \in Kwargs :
    Format(errors[c], args).err = "none"

C12_FailuresReenter ==
  /\ status \in {"idle", "running", "exited"}
  /\ NoTemplateMismatch
  /\ \A i \in 1..(Len(stack) - 1) :
       SuspendedByUnknownCode(i) \/ SuspendedByCollectFailure(i)
  /\ Cardinality(MissedLookups) + Cardinality(FailedCollects) = Len(stack) - 1
       \/ ~Started
  /\ \A k \in FailedCollects : Len(stack) > collects[k].by
  /\ Exited => (exitStatus = 1 /\ Len(log) = 1 /\ log[1].by = Len(stack))

\* both re-entries in one execution, ended by the log and the exit of
\* the 4302 construction
C12_Witness ==
  /\ Exited
  /\ lookups = <<-7, UNKNOWN_CODE, COLLECT_FAILED_CODE>>
  /\ SuspendedByUnknownCode(1)
  /\ SuspendedByCollectFailure(2)
  /\ log[1].by = 3
  /\ exitStatus = 1

(***************************************************************************)
(* C13: once a nested construction has started (4301 after a registry      *)
(* miss, 4302 after a collection failure) the enclosing construction       *)
(* takes no further step: it does not compose, collect, log or exit,       *)
(* control does not return to it or to its caller, and the exit is made    *)
(* by the innermost construction only.                                     *)
(***************************************************************************)
Enclosing == 1..(Len(stack) - 1)

C13_EnclosingFrozen ==
  /\ \A i \in Enclosing :
       /\ stack[i].pc \in {"Created", "CollectionAttempted"}
       /\ ~LoggedBy(i)
       /\ stack[i].pc = "Created" => (stack[i].msg = stack[i].given /\ ~CollectedBy(i))
  /\ \A k \in FailedCollects :
       /\ collects[k].by \in Enclosing
       /\ ~CollectReturnedTo(collects[k].by)
  /\ Cardinality(MissedLookups) = Cardinality({i \in Enclosing : stack[i].pc = "Created"})
  /\ Exited =>
       /\ \A i \in 1..Len(stack) : stack[i].pc = "Terminated" <=> i = Len(stack)
       /\ \A k \in 1..Len(log) : log[k].by = Len(stack)

C13_NestedNeverReturns ==
  /\ []C13_EnclosingFrozen
  /\ [][/\ Len(stack') >= Len(stack)
        /\ \A i \in Enclosing : stack'[i] = stack[i]
        /\ Len(stack') > Len(stack) =>
             \A i \in 1..Len(stack) : stack'[i].pc = stack[i].pc \/ i = Len(stack)
        /\ status = "running" => status' \in {"running", "exited"}
        /\ status = "exited" => status' = "exited"
        /\ \A k \in (Len(log) + 1)..Len(log') : log'[k].by = Len(stack)
        /\ \A k \in (Len(collects) + 1)..Len(collects') : collects'[k].by = Len(stack)]_vars

\* the nested 4301 construction has exited the process while the
\* caller's construction is still where get_message left it
C13_Witness ==
  /\ Exited
  /\ Len(stack) = 2
  /\ stack[1].pc = "Created"
  /\ stack[1].msg = stack[1].given
  /\ stack[2].code = UNKNOWN_CODE
  /\ stack[2].pc = "Terminated"
  /\ CollectReturnedTo(2)

(***************************************************************************)
(* C14: the registry is consulted for a construction if and only if its    *)
(* msg is absent or empty; an empty msg is treated as an absent one (an    *)
(* unknown code re-enters with 4301, a known code takes the registry       *)
(* template as message), and a non-empty msg is used verbatim with the     *)
(* supplied code in the footer.                                            *)
(***************************************************************************)
\* construction i is past line 99, or suspended in it
PastResolution(i) == stack[i].pc # "Created" \/ i < Len(stack)

\* the codes get_message must have been called with, in call order
RECURSIVE LookupsUpTo(_)
LookupsUpTo(i) ==
  IF i = 0 THEN <<>>
  ELSE IF ~Truthy(stack[i].given) /\ PastResolution(i)
       THEN Append(LookupsUpTo(i - 1), stack[i].code)
       ELSE LookupsUpTo(i - 1)

C14_LookupIffNoMsg ==
  /\ lookups = LookupsUpTo(Len(stack))
  /\ \A i \in 1..Len(stack) :
       LET f == stack[i]
       IN  /\ (~Truthy(f.given) /\ InRegistry(f.code)) =>
                /\ f.pc # "Created" \/ i = Len(stack)
                /\ f.pc = "MessageResolved" => f.msg = Some(errors[f.code])
           /\ (~Truthy(f.given) /\ ~InRegistry(f.code)) =>
                /\ f.pc = "Created"
                /\ i < Len(stack) => stack[i + 1].code = UNKNOWN_CODE
           /\ Truthy(f.given) =>
                /\ f.pc = "MessageResolved" => f.msg = f.given
                /\ Rank(f.pc) >= 2 => f.msg.val = f.given.val \o Trailer(f)
                /\ i < Len(stack) => stack[i + 1].code = COLLECT_FAILED_CODE
                /\ \A k \in 1..Len(log) :
                     log[k].by = i => log[k].text = f.given.val \o Trailer(f)

\* an empty msg with an unknown code has re-entered with 4301
C14_Witness ==
  /\ Len(stack) = 2
  /\ TopLevel.given = Some("")
  /\ TopLevel.code = 1234
  /\ lookups = <<1234>>
  /\ stack[2].code = UNKNOWN_CODE
  /\ stack[2].pc = "Created"

(***************************************************************************)
(* C15: in every execution started by one construction, the critical log   *)
(* is emitted exactly once before the exit and the collection              *)
(* collaborator is invoked at most once.                                   *)
(***************************************************************************)
C15_OneLogAtMostOneCollect ==
  /\ Len(log) <= 1
  /\ Len(collects) <= 1
  /\ Exited => Len(log) = 1
  /\ (Started /\ Rank(Top.pc) >= 4) <=> Len(log) = 1

\* a registry code whose collection failed: one collection, one record
C15_Witness ==
  /\ Exited
  /\ Len(stack) = 2
  /\ TopLevel.given = None
  /\ InRegistry(TopLevel.code)
  /\ TopLevel.collect
  /\ Len(collects) = 1
  /\ Len(log) = 1

(***************************************************************************)
(* C16 as stated: the footer code of the one logged record is 4302 if the  *)
(* collection was invoked and failed, otherwise 4301 if msg was absent or  *)
(* empty and the code is not in the registry, otherwise the requested      *)
(* code; when the collection fails, the original code and message appear   *)
(* in no logged record.                                                    *)
(***************************************************************************)
DeterminedFooterCode ==
  IF CollectFailed THEN COLLECT_FAILED_CODE
  ELSE IF UnknownCodeCase THEN UNKNOWN_CODE
  ELSE TopLevel.code

\* the caller's construction has a message of its own
HasOriginalMessage == Truthy(TopLevel.given) \/ InRegistry(TopLevel.code)

CodeAppears(text, code) == Contains(text, "#" \o IntToStr(code))

C16_FooterDeterminedOriginalAbsent ==
  Exited =>
    /\ Len(log) = 1
    /\ EndsWith(log[1].text, Footer(DeterminedFooterCode))
    /\ CollectFailed =>
         /\ ~CodeAppears(log[1].text, TopLevel.code)
         /\ HasOriginalMessage =>
              ~Contains(log[1].text, ResolvedMessage(TopLevel))

(***************************************************************************)
(* C16 amended: the footer code is determined as stated; when the          *)
(* collection fails, the one logged record is exactly the 4302 record      *)
(* (the 4302 template, the caught failure as exception detail, the footer  *)
(* of 4302), so the original code and message appear in it only where      *)
(* they coincide with that record's own text, as when the requested code   *)
(* is itself 4302.                                                         *)
(***************************************************************************)
C16_FooterDetermined ==
  Exited =>
    /\ Len(log) = 1
    /\ EndsWith(log[1].text, Footer(DeterminedFooterCode))
    /\ CollectFailed =>
         /\ log[1].text = errors[COLLECT_FAILED_CODE] \o "\n\nException: "
                            \o collects[1].error.text \o "\n\n"
                            \o Footer(COLLECT_FAILED_CODE)
         /\ TopLevel.code # COLLECT_FAILED_CODE =>
              /\ ~CodeAppears(log[1].text, TopLevel.code)
              /\ HasOriginalMessage =>
                   ~Contains(log[1].text, ResolvedMessage(TopLevel))
         /\ TopLevel.code = COLLECT_FAILED_CODE =>
              CodeAppears(log[1].text, TopLevel.code)

\* a custom message for 5000 lost to the 4302 record
C16_Witness ==
  /\ Exited
  /\ CollectFailed
  /\ TopLevel.code = 5000
  /\ TopLevel.given = Some("custom text")
  /\ EndsWith(log[1].text, "#4302")
  /\ ~Contains(log[1].text, "custom text")

(***************************************************************************)
(* C17: the collection collaborator is invoked in an execution if and      *)
(* only if (a) the caller's construction resolves its message (non-empty   *)
(* msg, or code in the registry) and has collect=true, or (b) msg is       *)
(* absent or empty and the code is not in the registry: then the nested    *)
(* 4301 construction collects whatever collect value the caller passed.    *)
(***************************************************************************)
CollectCaseA == /\ Truthy(TopLevel.given) \/ InRegistry(TopLevel.code)
                /\ TopLevel.collect

CollectCaseB == ~Truthy(TopLevel.given) /\ ~InRegistry(TopLevel.code)

====
